---- MODULE Spec2Model ----
(***************************************************************************)
(* Model of johnson-health-theme/fix_csv.py: one pass over a CSV file that *)
(* copies the header, locates the column "Variant Fulfillment Service" and *)
(* overwrites that column with "manual" in every data row long enough to   *)
(* hold it.                                                                *)
(*                                                                         *)
(* A field is a sequence of characters; a row is a sequence of fields; a   *)
(* file is a sequence of characters.  The column name and the replacement  *)
(* value are each carried as one indivisible character, as are the         *)
(* two-character line terminator "\r\n" and every other character.         *)
(***************************************************************************)
EXTENDS Integers, Sequences, FiniteSets, TLC

(***************************************************************************)
(* Bounds of the explored inputs.                                          *)
(***************************************************************************)
MaxFields == 2
MaxRows == 2
RTMaxRows == 1

(***************************************************************************)
(* Characters.                                                             *)
(***************************************************************************)
delimiter == ","
quotechar == "\""
LF == "\n"
lineterminator == "\r\n"

TargetName == <<"Variant Fulfillment Service">>
Manual == <<"manual">>

input_file == "product_template_corrected.csv"
output_file == "product_template_final.csv"

(***************************************************************************)
(* src        the records csv.reader yields from the source file, in order *)
(* malformed  the index of the record at which reading raises (0: none)    *)
(* readable   whether open(input_file) succeeds                            *)
(* dest       the text of the destination file                             *)
(* pc         the statement the run is at                                  *)
(* pos        the number of records taken from the reader                  *)
(* header, fulfillment_col, row   the script's variables (-1: unbound)     *)
(* written    the rows handed to writer.writerow, in order                 *)
(* stdout     what print has emitted                                       *)
(* run, firstWritten, firstDest   the run's number, and what the first run *)
(*            wrote when its output was fed back as the source             *)
(***************************************************************************)
VARIABLES src, malformed, readable, dest, pc, infileOpen, outfileOpen,
          pos, header, fulfillment_col, row, written, stdout,
          run, firstWritten, firstDest

vars == <<src, malformed, readable, dest, pc, infileOpen, outfileOpen,
          pos, header, fulfillment_col, row, written, stdout,
          run, firstWritten, firstDest>>

(***************************************************************************)
(* csv.writer.writerow with the default dialect (QUOTE_MINIMAL,            *)
(* doublequote): a field is quoted when it holds the delimiter, the quote  *)
(* character or a line break; a row made of one empty field is written as  *)
(* a pair of quotes; the row ends with "\r\n".  The destination is opened  *)
(* with newline='' so what the writer emits is what the file holds.        *)
(***************************************************************************)
RECURSIVE Flatten(_)
Flatten(ss) == IF ss = <<>> THEN <<>> ELSE Head(ss) \o Flatten(Tail(ss))

NeedsQuotes(field) ==
    \E i \in 1..Len(field) : field[i] \in {delimiter, quotechar, LF, lineterminator}

DoubleQuotes(field) ==
    Flatten([i \in 1..Len(field) |->
                IF field[i] = quotechar THEN <<quotechar, quotechar>> ELSE <<field[i]>>])

WriteField(field) ==
    IF NeedsQuotes(field)
    THEN <<quotechar>> \o DoubleQuotes(field) \o <<quotechar>>
    ELSE field

writerow(r) ==
    IF r = << <<>> >>
    THEN <<quotechar, quotechar, lineterminator>>
    ELSE Flatten([i \in 1..Len(r) |->
                    IF i = 1 THEN WriteField(r[i]) ELSE <<delimiter>> \o WriteField(r[i])])
         \o <<lineterminator>>

(***************************************************************************)
(* open(input_file, 'r') without newline='': universal newlines turn every *)
(* "\r\n" of the file into "\n" before the reader sees it.                 *)
(***************************************************************************)
UniversalNewlines(text) ==
    [i \in 1..Len(text) |-> IF text[i] = lineterminator THEN LF ELSE text[i]]

(***************************************************************************)
(* csv.reader with the default dialect (not strict).  The reader is fed    *)
(* the text line by line; a line ends after each "\n" and at the end of    *)
(* the text, and there the reader sees the end-of-line mark EOL.  p is the *)
(* parser: its state, the field being collected and the fields collected.  *)
(***************************************************************************)
EOL == "EOL"

ParserInit == [state |-> "START_RECORD", field |-> <<>>, fields |-> <<>>]

SaveField(p, next) ==
    [state |-> next, field |-> <<>>, fields |-> Append(p.fields, p.field)]

AddChar(p, c, next) ==
    [p EXCEPT !.state = next, !.field = Append(p.field, c)]

AfterBreak(c) == IF c = EOL THEN "START_RECORD" ELSE "EAT_CRNL"

StartField(p, c) ==
    IF c \in {LF, EOL} THEN SaveField(p, AfterBreak(c))
    ELSE IF c = quotechar THEN [p EXCEPT !.state = "IN_QUOTED_FIELD"]
    ELSE IF c = delimiter THEN SaveField(p, "START_FIELD")
    ELSE AddChar(p, c, "IN_FIELD")

ProcessChar(p, c) ==
    CASE p.state = "START_RECORD" ->
            IF c = EOL THEN p
            ELSE IF c = LF THEN [p EXCEPT !.state = "EAT_CRNL"]
            ELSE StartField(p, c)
      [] p.state = "START_FIELD" -> StartField(p, c)
      [] p.state = "IN_FIELD" ->
            IF c \in {LF, EOL} THEN SaveField(p, AfterBreak(c))
            ELSE IF c = delimiter THEN SaveField(p, "START_FIELD")
            ELSE AddChar(p, c, "IN_FIELD")
      [] p.state = "IN_QUOTED_FIELD" ->
            IF c = EOL THEN p
            ELSE IF c = quotechar THEN [p EXCEPT !.state = "QUOTE_IN_QUOTED_FIELD"]
            ELSE AddChar(p, c, "IN_QUOTED_FIELD")
      [] p.state = "QUOTE_IN_QUOTED_FIELD" ->
            IF c = quotechar THEN AddChar(p, c, "IN_QUOTED_FIELD")
            ELSE IF c = delimiter THEN SaveField(p, "START_FIELD")
            ELSE IF c \in {LF, EOL} THEN SaveField(p, AfterBreak(c))
            ELSE AddChar(p, c, "IN_FIELD")
      [] p.state = "EAT_CRNL" ->
            (* A line break is the last character of its line, so only EOL *)
            (* can follow one here.                                        *)
            IF c = EOL THEN [p EXCEPT !.state = "START_RECORD"] ELSE p

(* The characters of the text as the reader meets them, EOL marks included. *)
WithEOL(text) ==
    Flatten([i \in 1..Len(text) |->
                IF text[i] = LF \/ i = Len(text) THEN <<text[i], EOL>> ELSE <<text[i]>>])

RECURSIVE ReadRecords(_, _)
ReadRecords(chars, p) ==
    IF chars = <<>>
    THEN IF p.field # <<>> \/ p.state = "IN_QUOTED_FIELD"
         THEN << Append(p.fields, p.field) >>
         ELSE <<>>
    ELSE LET q == ProcessChar(p, Head(chars))
         IN  IF Head(chars) = EOL /\ q.state = "START_RECORD"
             THEN <<q.fields>> \o ReadRecords(Tail(chars), ParserInit)
             ELSE ReadRecords(Tail(chars), q)

(* Every row csv.reader(infile) yields for a file holding text. *)
reader(text) == ReadRecords(WithEOL(UniversalNewlines(text)), ParserInit)

(***************************************************************************)
(* The inputs explored.                                                    *)
(***************************************************************************)
HeaderFields == {TargetName, <<"x">>}
DataFields == {Manual, <<>>}
RTDataFields == {<<>>, <<delimiter>>, <<quotechar>>, <<LF>>}

Rows(F) == UNION {[1..k -> F] : k \in 0..MaxFields}

(* Files of a header and at most n data rows, and the empty file. *)
Files(D, n) ==
    {<<>>} \cup {<<h>> \o d : h \in Rows(HeaderFields),
                              d \in UNION {[1..k -> Rows(D)] : k \in 0..n}}

Inputs(D, n) ==
    {[src |-> f, malformed |-> 0, readable |-> TRUE] : f \in Files(D, n)}
    \cup {[src |-> Append(g, <<>>), malformed |-> Len(g) + 1, readable |-> TRUE] :
             g \in {f \in Files(D, n) : Len(f) <= n}}
    \cup {[src |-> <<>>, malformed |-> 0, readable |-> FALSE]}

(* What the destination holds before the run: the output of an earlier run. *)
OldDest == writerow(<<TargetName>>) \o writerow(<<Manual>>)

InitWith(D, n) ==
    /\ \E in \in Inputs(D, n) :
          /\ src = in.src
          /\ malformed = in.malformed
          /\ readable = in.readable
    /\ dest = OldDest
    /\ pc = "open"
    /\ infileOpen = FALSE
    /\ outfileOpen = FALSE
    /\ pos = 0
    /\ header = <<>>
    /\ fulfillment_col = -1
    /\ row = <<>>
    /\ written = <<>>
    /\ stdout = <<>>
    /\ run = 1
    /\ firstWritten = <<>>
    /\ firstDest = <<>>

Init == InitWith(DataFields, MaxRows)

(***************************************************************************)
(* The script's computations.                                              *)
(***************************************************************************)

(* list.index: the zero-based position of the first element equal to name. *)
Contains(h, name) == \E i \in 1..Len(h) : h[i] = name

(* A lookup that lands on the last element equal to name. *)
IndexLast(h, name) == (CHOOSE i \in 1..Len(h) :
                          h[i] = name /\ \A j \in (i + 1)..Len(h) : h[j] # name) - 1

Index(h, name) == (CHOOSE i \in 1..Len(h) :
                      h[i] = name /\ \A j \in 1..(i - 1) : h[j] # name) - 1

(* A replacement that leaves an empty cell empty. *)
ReplacedUnlessEmpty(r, col) ==
    IF Len(r) > col /\ r[col + 1] # <<>> THEN [r EXCEPT ![col + 1] = Manual] ELSE r

(* A replacement that pads a short row with empty cells up to the column. *)
ReplacedPadded(r, col) ==
    [j \in 1..(IF Len(r) > col THEN Len(r) ELSE col + 1) |->
        IF j = col + 1 THEN Manual ELSE IF j <= Len(r) THEN r[j] ELSE <<>>]

(* A replacement that inserts the value before the cell (row.insert). *)
ReplacedInserted(r, col) ==
    IF Len(r) > col
    THEN SubSeq(r, 1, col) \o <<Manual>> \o SubSeq(r, col + 1, Len(r))
    ELSE r

(* if len(row) > fulfillment_col: row[fulfillment_col] = 'manual' *)
Replaced(r, col) ==
    IF Len(r) > col THEN [r EXCEPT ![col + 1] = Manual] ELSE r

(* A message that counts columns from one. *)
MessageOneBased(col) ==
    << <<"Fixed CSV saved to", output_file>>,
       <<"Changed column", col + 1, "(Variant Fulfillment Service) to 'manual'">> >>

(* The two print statements. *)
Message(col) ==
    << <<"Fixed CSV saved to", output_file>>,
       <<"Changed column", col, "(Variant Fulfillment Service) to 'manual'">> >>

(***************************************************************************)
(* An exception leaves the with block: both files are closed and the       *)
(* process ends without reaching the print statements.                     *)
(***************************************************************************)
Raise ==
    /\ pc' = "aborted"
    /\ infileOpen' = FALSE
    /\ outfileOpen' = FALSE

(* The two opens in the other order: the destination is truncated before   *)
(* the source is found to be unreadable.                                   *)
OpenFilesOutputFirst ==
    /\ pc = "open"
    /\ dest' = <<>>
    /\ IF readable
       THEN /\ infileOpen' = TRUE
            /\ outfileOpen' = TRUE
            /\ pc' = "read_header"
       ELSE Raise
    /\ UNCHANGED <<src, malformed, readable, pos, header, fulfillment_col, row,
                   written, stdout, run, firstWritten, firstDest>>

(* with open(input_file, 'r') as infile, open(output_file, 'w') as outfile *)
OpenFiles ==
    /\ pc = "open"
    /\ IF readable
       THEN /\ infileOpen' = TRUE
            /\ outfileOpen' = TRUE
            /\ dest' = <<>>
            /\ pc' = "read_header"
       ELSE /\ Raise
            /\ UNCHANGED dest
    /\ UNCHANGED <<src, malformed, readable, pos, header, fulfillment_col, row,
                   written, stdout, run, firstWritten, firstDest>>

(* The next(reader) of the header and of the for loop: no record left, a   *)
(* record that does not parse, or a record.                                *)
Exhausted == pos = Len(src)
Unparsable == ~Exhausted /\ malformed = pos + 1

(* header = next(reader) *)
ReadHeader ==
    /\ pc = "read_header"
    /\ IF Exhausted \/ Unparsable
       THEN /\ Raise
            /\ UNCHANGED <<header, pos>>
       ELSE /\ header' = src[pos + 1]
            /\ pos' = pos + 1
            /\ pc' = "write_header"
            /\ UNCHANGED <<infileOpen, outfileOpen>>
    /\ UNCHANGED <<src, malformed, readable, dest, fulfillment_col, row,
                   written, stdout, run, firstWritten, firstDest>>

(* A header written after the replacement has been applied to it too. *)
WriteHeaderReplaced ==
    /\ pc = "write_header"
    /\ LET h == IF Contains(header, TargetName)
                THEN Replaced(header, Index(header, TargetName))
                ELSE header
       IN  /\ dest' = dest \o writerow(h)
           /\ written' = Append(written, h)
    /\ pc' = "find_column"
    /\ UNCHANGED <<src, malformed, readable, infileOpen, outfileOpen, pos, header,
                   fulfillment_col, row, stdout, run, firstWritten, firstDest>>

(* writer.writerow(header) *)
WriteHeader ==
    /\ pc = "write_header"
    /\ dest' = dest \o writerow(header)
    /\ written' = Append(written, header)
    /\ pc' = "find_column"
    /\ UNCHANGED <<src, malformed, readable, infileOpen, outfileOpen, pos, header,
                   fulfillment_col, row, stdout, run, firstWritten, firstDest>>

(* A lookup that skips silently when the column is absent: the column is   *)
(* taken to lie past the end of every row.                                 *)
FindColumnSilentSkip ==
    /\ pc = "find_column"
    /\ fulfillment_col' = IF Contains(header, TargetName)
                          THEN Index(header, TargetName)
                          ELSE MaxFields + 1
    /\ pc' = "next_row"
    /\ UNCHANGED <<src, malformed, readable, dest, infileOpen, outfileOpen, pos,
                   header, row, written, stdout, run, firstWritten, firstDest>>

(* fulfillment_col = header.index('Variant Fulfillment Service') *)
FindColumn ==
    /\ pc = "find_column"
    /\ IF Contains(header, TargetName)
       THEN /\ fulfillment_col' = Index(header, TargetName)
            /\ pc' = "next_row"
            /\ UNCHANGED <<infileOpen, outfileOpen>>
       ELSE /\ Raise
            /\ UNCHANGED fulfillment_col
    /\ UNCHANGED <<src, malformed, readable, dest, pos, header, row,
                   written, stdout, run, firstWritten, firstDest>>

(* A loop that skips blank records (if not row: continue). *)
NextRowSkipBlank ==
    /\ pc = "next_row"
    /\ IF Exhausted
       THEN /\ pc' = "close"
            /\ UNCHANGED <<row, pos, infileOpen, outfileOpen>>
       ELSE IF Unparsable
       THEN /\ Raise
            /\ UNCHANGED <<row, pos>>
       ELSE IF src[pos + 1] = <<>>
       THEN /\ pos' = pos + 1
            /\ UNCHANGED <<row, pc, infileOpen, outfileOpen>>
       ELSE /\ row' = src[pos + 1]
            /\ pos' = pos + 1
            /\ pc' = "replace"
            /\ UNCHANGED <<infileOpen, outfileOpen>>
    /\ UNCHANGED <<src, malformed, readable, dest, header, fulfillment_col,
                   written, stdout, run, firstWritten, firstDest>>

(* for row in reader *)
NextRow ==
    /\ pc = "next_row"
    /\ IF Exhausted
       THEN /\ pc' = "close"
            /\ UNCHANGED <<row, pos, infileOpen, outfileOpen>>
       ELSE IF Unparsable
       THEN /\ Raise
            /\ UNCHANGED <<row, pos>>
       ELSE /\ row' = src[pos + 1]
            /\ pos' = pos + 1
            /\ pc' = "replace"
            /\ UNCHANGED <<infileOpen, outfileOpen>>
    /\ UNCHANGED <<src, malformed, readable, dest, header, fulfillment_col,
                   written, stdout, run, firstWritten, firstDest>>

(* The body of the loop up to the write: the row is changed in place. *)
ReplaceValue ==
    /\ pc = "replace"
    /\ row' = Replaced(row, fulfillment_col)
    /\ pc' = "write_row"
    /\ UNCHANGED <<src, malformed, readable, dest, infileOpen, outfileOpen, pos,
                   header, fulfillment_col, written, stdout, run, firstWritten,
                   firstDest>>

(* A write that puts the row in front of what the file holds. *)
WriteDataRowFirst ==
    /\ pc = "write_row"
    /\ dest' = writerow(row) \o dest
    /\ written' = <<row>> \o written
    /\ pc' = "next_row"
    /\ UNCHANGED <<src, malformed, readable, infileOpen, outfileOpen, pos, header,
                   fulfillment_col, row, stdout, run, firstWritten, firstDest>>

(* writer.writerow(row) *)
WriteDataRow ==
    /\ pc = "write_row"
    /\ dest' = dest \o writerow(row)
    /\ written' = Append(written, row)
    /\ pc' = "next_row"
    /\ UNCHANGED <<src, malformed, readable, infileOpen, outfileOpen, pos, header,
                   fulfillment_col, row, stdout, run, firstWritten, firstDest>>

(* The end of the with block: both files are closed. *)
CloseFiles ==
    /\ pc = "close"
    /\ infileOpen' = FALSE
    /\ outfileOpen' = FALSE
    /\ pc' = "print"
    /\ UNCHANGED <<src, malformed, readable, dest, pos, header, fulfillment_col,
                   row, written, stdout, run, firstWritten, firstDest>>

PrintMessage ==
    /\ pc = "print"
    /\ stdout' = stdout \o Message(fulfillment_col)
    /\ pc' = "done"
    /\ UNCHANGED <<src, malformed, readable, dest, infileOpen, outfileOpen, pos,
                   header, fulfillment_col, row, written, run, firstWritten,
                   firstDest>>

Next ==
    \/ OpenFiles
    \/ ReadHeader
    \/ WriteHeader
    \/ FindColumn
    \/ NextRow
    \/ ReplaceValue
    \/ WriteDataRow
    \/ CloseFiles
    \/ PrintMessage

Spec == Init /\ [][Next]_vars

(***************************************************************************)
(* Feeding the output back: the destination of a successful first run      *)
(* becomes the source of a second run, which reads it through csv.reader.  *)
(***************************************************************************)
FeedBack ==
    /\ pc = "done"
    /\ run = 1
    /\ run' = 2
    /\ firstWritten' = written
    /\ firstDest' = dest
    /\ src' = reader(dest)
    /\ malformed' = 0
    /\ readable' = TRUE
    /\ pc' = "open"
    /\ pos' = 0
    /\ header' = <<>>
    /\ fulfillment_col' = -1
    /\ row' = <<>>
    /\ written' = <<>>
    /\ stdout' = <<>>
    /\ UNCHANGED <<dest, infileOpen, outfileOpen>>

InitTwice == InitWith(RTDataFields, RTMaxRows)

NextTwice ==
    \/ Next
    \/ FeedBack

SpecTwice == InitTwice /\ [][NextTwice]_vars

(***************************************************************************)
(* Properties.                                                             *)
(***************************************************************************)

(* The rows the destination file holds, as a reader of it sees them.  The   *)
(* rows handed to the writer are in written; C9 relates the two.           *)
Output == reader(dest)

(* k is the zero-based ordinal of the first field of h equal to the name. *)
IsTargetOrdinal(h, k) ==
    /\ k \in 0..(Len(h) - 1)
    /\ h[k + 1] = TargetName
    /\ \A j \in 1..k : h[j] # TargetName

HasTarget(h) == \E k \in 0..(Len(h) - 1) : h[k + 1] = TargetName

(* The source opens, its header parses and every record after it parses. *)
HeaderParses == readable /\ Len(src) >= 1 /\ malformed # 1
AllParse == HeaderParses /\ malformed = 0

(* The data rows written so far: positions 2.. of written. *)
DataWritten == 2..Len(written)

(* C1: when the header holds "Variant Fulfillment Service" and every row   *)
(* parses, a completed run has written exactly as many rows as the source  *)
(* holds, header included, and the destination file holds that many.       *)
C1_RowCount ==
    (AllParse /\ HasTarget(src[1]) /\ pc = "done") =>
        /\ Len(written) = Len(src)
        /\ Len(Output) = Len(src)

C1_Witness ==
    /\ pc = "done"
    /\ Len(src) = 3
    /\ src[2] = <<>>
    /\ Len(src[3]) = 1
    /\ Len(src[1]) = 2
    /\ Len(Output) = 3

(* C2: every data row with more fields than the target ordinal is written  *)
(* with "manual" at that ordinal, whatever it held.                        *)
C2_TargetIsManual ==
    \A i \in DataWritten :
        \A k \in 0..(Len(src[i]) - 1) :
            IsTargetOrdinal(src[1], k) =>
                /\ Len(written[i]) > k
                /\ written[i][k + 1] = Manual

C2_Witness ==
    /\ pc = "done"
    /\ IsTargetOrdinal(src[1], 1)
    /\ Len(src) = 3
    /\ Len(src[2]) = 2 /\ src[2][2] = Manual /\ written[2][2] = Manual
    /\ Len(src[3]) = 2 /\ src[3][2] = <<>> /\ written[3][2] = Manual

(* C3: every data row with no more fields than the target ordinal is       *)
(* written as it was read (same fields, same length), and reading it is    *)
(* followed by writing it: no error ends the run on that row.              *)
C3_ShortRowUnchanged ==
    \A i \in 2..pos :
        \A k \in 0..(Len(src[1]) - 1) :
            (IsTargetOrdinal(src[1], k) /\ Len(src[i]) <= k) =>
                \/ i = pos /\ pc \in {"replace", "write_row"} /\ Len(written) = i - 1
                \/ /\ i <= Len(written)
                   /\ written[i] = src[i]

C3_Witness ==
    /\ pc = "done"
    /\ IsTargetOrdinal(src[1], 1)
    /\ Len(src) = 3
    /\ src[2] = <<>> /\ written[2] = <<>>
    /\ Len(src[3]) = 1 /\ written[3] = src[3]

(* C4: the first row written equals the first row read, field for field;   *)
(* the header's "Variant Fulfillment Service" cell is never replaced.      *)
C4_HeaderUnchanged ==
    Len(written) >= 1 =>
        /\ written[1] = src[1]
        /\ header = src[1]
        /\ pc \in {"done", "aborted"} => Output[1] = src[1]

C4_Witness ==
    /\ pc = "done"
    /\ Len(written) = 3
    /\ IsTargetOrdinal(src[1], 0)
    /\ written[1][1] = TargetName
    /\ Len(written[2]) = 2
    /\ written[2][1] = Manual

(* C5: when the header holds no field equal to "Variant Fulfillment        *)
(* Service", the run does not get past the column lookup: no data row is   *)
(* read, processed or written, nothing is printed, and a run that has      *)
(* ended has failed at the lookup, after the header was read and written.  *)
C5_MissingColumnFailsFast ==
    (HeaderParses /\ ~HasTarget(src[1])) =>
        /\ pc \in {"open", "read_header", "write_header", "find_column", "aborted"}
        /\ pos <= 1
        /\ Len(written) <= 1
        /\ row = <<>>
        /\ stdout = <<>>
        /\ fulfillment_col = -1
        /\ pc = "aborted" => (pos = 1 /\ written = <<src[1]>> /\ Output = <<src[1]>>)

C5_Witness ==
    /\ pc = "aborted"
    /\ HeaderParses
    /\ ~HasTarget(src[1])
    /\ Len(src) = 3
    /\ Len(src[1]) = 2

(* C6 as stated: a run either succeeds with the header and every processed *)
(* row in the destination, or aborts having written no header row and no   *)
(* data row to the destination.                                            *)
C6_NothingWrittenOnAbort ==
    /\ pc = "done" => (Output = written /\ Len(written) = Len(src))
    /\ pc = "aborted" => (written = <<>> /\ dest \in {<<>>, OldDest})

(* C6, amended: a run either succeeds, with the header and every processed *)
(* row in the destination, or aborts without a completion message, and     *)
(* then the destination holds what was written before the failure: its     *)
(* former content when the source cannot be opened, nothing when the       *)
(* source is empty or its header does not parse, the header alone when the *)
(* target column is missing, and the header and the processed rows before  *)
(* it when a later row does not parse.                                     *)
C6_AbortKeepsWrittenPrefix ==
    /\ pc \in {"done", "aborted"} => (~infileOpen /\ ~outfileOpen)
    /\ pc = "done" =>
          /\ AllParse /\ HasTarget(src[1])
          /\ Output = written
          /\ Len(written) = Len(src)
          /\ Len(stdout) = 2
    /\ pc = "aborted" =>
          LET out == Output
          IN  /\ stdout = <<>>
              /\ ~readable => (dest = OldDest /\ written = <<>>)
              /\ readable => out = written
              /\ (readable /\ ~HeaderParses) => (dest = <<>> /\ written = <<>>)
              /\ (HeaderParses /\ ~HasTarget(src[1])) => out = <<src[1]>>
              /\ (HeaderParses /\ HasTarget(src[1])) =>
                    /\ malformed > 1
                    /\ Len(out) = malformed - 1
                    /\ out[1] = src[1]

C6_Witness ==
    /\ pc = "aborted"
    /\ HeaderParses
    /\ HasTarget(src[1])
    /\ malformed = 3
    /\ Len(Output) = 2
    /\ Len(Output[2]) = 2

(* C8: the completion message is on stdout only in a run that succeeded:   *)
(* both lines, once, with both files closed and every row written; an      *)
(* aborted run has printed nothing; the index printed is the zero-based    *)
(* ordinal of the first "Variant Fulfillment Service" of the header, the   *)
(* ordinal that holds "manual" in the data rows written.                   *)
C8_MessageOnlyOnSuccess ==
    /\ pc = "aborted" => stdout = <<>>
    /\ pc = "done" => stdout # <<>>
    /\ stdout # <<>> =>
          /\ pc = "done"
          /\ ~infileOpen /\ ~outfileOpen
          /\ Len(written) = Len(src)
          /\ Output = written
          /\ Len(stdout) = 2
          /\ stdout[1] = <<"Fixed CSV saved to", output_file>>
          /\ Len(stdout[2]) = 3
          /\ stdout[2][1] = "Changed column"
          /\ IsTargetOrdinal(src[1], stdout[2][2])
          /\ stdout[2][2] = fulfillment_col
          /\ \A i \in DataWritten :
                Len(src[i]) > stdout[2][2] => written[i][stdout[2][2] + 1] = Manual

C8_Witness ==
    /\ pc = "done"
    /\ Len(stdout) = 2
    /\ stdout[2][2] = 1
    /\ Len(written) = 3
    /\ Len(written[3]) = 2
    /\ src[3][2] = <<>>

(* C9: rows reach the destination in the order read: the header first, the *)
(* i-th row written is the processed form of the i-th row read, and a data *)
(* row is written before the next one is read.                             *)
ProcessedForm(in, out, k) ==
    /\ Len(out) = Len(in)
    /\ \A j \in 1..Len(in) : out[j] = (IF j = k + 1 THEN Manual ELSE in[j])

C9_OriginalOrder ==
    /\ Len(written) <= pos
    /\ pos <= Len(written) + 1
    /\ pos = Len(written) + 1 => pc \in {"write_header", "replace", "write_row"}
    /\ (readable /\ pc # "open") => Output = written
    /\ Len(written) >= 1 => written[1] = src[1]
    /\ \A i \in DataWritten :
          \A k \in 0..(Len(src[1]) - 1) :
              IsTargetOrdinal(src[1], k) => ProcessedForm(src[i], written[i], k)

C9_Witness ==
    /\ pc = "done"
    /\ Len(written) = 3
    /\ IsTargetOrdinal(src[1], 0)
    /\ Len(src[2]) = 1 /\ src[2] # written[2]
    /\ Len(src[3]) = 2 /\ src[3][2] = <<>>

(* C10: a data row with more fields than the target ordinal is written     *)
(* with as many fields as it was read with, and every field at another     *)
(* ordinal as read; when the header names "Variant Fulfillment Service"    *)
(* more than once, the ordinal overwritten is the first one's and the      *)
(* later ones keep their values.                                           *)
C10_OtherFieldsKept ==
    \A i \in DataWritten :
        \A k \in 0..(Len(src[i]) - 1) :
            IsTargetOrdinal(src[1], k) =>
                /\ fulfillment_col = k
                /\ Len(written[i]) = Len(src[i])
                /\ \A j \in 1..Len(src[i]) : j # k + 1 => written[i][j] = src[i][j]

C10_Witness ==
    /\ pc = "done"
    /\ src[1] = <<TargetName, TargetName>>
    /\ Len(src) = 2
    /\ src[2] = << <<>>, <<>> >>
    /\ written[2] = <<Manual, <<>> >>

(* C7: when a run succeeds and its output is fed back as the source, the   *)
(* second run succeeds too and writes the rows, and the file, the first    *)
(* run wrote.                                                              *)
C7_Idempotent ==
    run = 2 =>
        /\ pc # "aborted"
        /\ src = firstWritten
        /\ pc = "done" => (written = firstWritten /\ dest = firstDest)

C7_Witness ==
    /\ run = 2
    /\ pc = "done"
    /\ Len(written) = 2
    /\ written[2] = <<Manual, <<quotechar>> >>
    /\ dest = firstDest

====
